---- MODULE Spec2Model ----
(***************************************************************************)
(* A model of orderedmap/v4: OrderedMap[K, V] is a handle made of a Go map *)
(* (kv) and a pointer to a slice of keys (ll).  The Go heap is modelled by *)
(* three growing stores: the map objects, the slices behind the ll         *)
(* pointers, and (for the instantiation V = []E used by AppendMultiMap)    *)
(* the backing arrays of the value slices.                                 *)
(***************************************************************************)
EXTENDS Integers, Sequences, FiniteSets, TLC

\* ---------------------------------------------------------------- bounds
NumKeys == 3        \* the key type K has the values 1..NumKeys
NumVals == 1        \* the scalar value type V has the values 0..NumVals
MaxEls  == 2        \* longest argument list of NewOrderedMapWithElements
MaxCap  == 3        \* largest capacity append gives a grown value slice
NumElems == 2       \* the element type E of V = []E has the values 1..NumElems
NumMultiKeys == 2   \* the keys used with V = []E
NumCopyKeys == 2    \* the keys used where two separate maps are explored
NumMultiCopyKeys == 1   \* the keys used where a multimap and its copy are explored
NumReadKeys == 2    \* the nonzero keys used where the readers are explored
MaxApps == 3        \* longest recorded run of AppendMultiMap calls
NumConcKeys == 2    \* the nonzero keys used where two threads are explored
MaxWrites == 2      \* most calls the writing thread makes

KeyT  == 1..NumKeys
ValT  == 0..NumVals
CopyKeyT == 1..NumCopyKeys
MultiKeyT == 1..NumMultiKeys
ElemT == 1..NumElems
\* Where two separate maps are explored V has its zero value and one other:
\* the code never inspects a value, it only stores and returns it.
CopyValT == {0, 1}
\* Where the readers are explored the keys include the zero value of K.
ReadKeyT == 0..NumReadKeys
ReadValT == {0, 1}
ConcKeyT == 1..NumConcKeys
ConcValT == {0, 1}
Handles == {"m", "m2"}

VARIABLES
    hnd,       \* the OrderedMap struct each program variable holds
    kvs,       \* heap: the Go maps, indexed by reference
    lls,       \* heap: the []K slices the ll pointers point to
    arrs,      \* heap: the backing arrays of []E values (V = []E only)
    vtype,     \* the instantiation of V: "scalar" or "slice"
    panicked,  \* a runtime panic has ended the program
    last,      \* the last call: its name, receiver, key, result, returned map
    sets,      \* the Set calls so far, while the program has only built an
               \* empty map and Set keys it had not Set before
    apps,      \* the AppendMultiMap calls so far, while the program has only
               \* built an empty map and called AppendMultiMap
    trav,      \* the traversal in progress or just ended, and its consumer
    thr        \* two threads on one map: a Copy and a writer, each at a
               \* statement of its call

vars == <<hnd, kvs, lls, arrs, vtype, panicked, last, sets, apps, trav, thr>>

\* ------------------------------------------------------------ Go values
\* The zero OrderedMap struct: nil map, nil pointer.
NilHandle == [kv |-> 0, ll |-> 0]

\* The nil slice, the zero value of []E.
NilSlice == [arr |-> 0, len |-> 0]

\* The zero value of K.
ZeroK == 0

\* The zero value of V.
ZeroV == IF vtype = "slice" THEN NilSlice ELSE 0

\* The heap as one value, so that the methods are functions of it.
Heap == [kvs |-> kvs, lls |-> lls, arrs |-> arrs]

\* v, ok := mp[k]
MapIndex(mp, k) ==
    IF k \in DOMAIN mp THEN [value |-> mp[k], ok |-> TRUE]
                       ELSE [value |-> ZeroV, ok |-> FALSE]

\* mp[k] = v
MapStore(mp, k, v) ==
    [x \in (DOMAIN mp) \cup {k} |-> IF x = k THEN v ELSE mp[x]]

\* delete(mp, k)
MapDelete(mp, k) == [x \in (DOMAIN mp) \ {k} |-> mp[x]]

\* slices.Index / slices.IndexFunc with an equality test: the 0-based index
\* of the first element equal to v, or -1.
SlicesIndex(s, v) ==
    IF \E i \in 1..Len(s) : s[i] = v
    THEN (CHOOSE i \in 1..Len(s) : s[i] = v /\ \A j \in 1..(i-1) : s[j] # v) - 1
    ELSE -1

\* slices.Delete(s, i, j) panics unless 0 <= i <= j <= len(s).
SlicesDeleteInRange(s, i, j) == 0 <= i /\ i <= j /\ j <= Len(s)

\* A slices.Delete that removes the elements one place further on.
SlicesDelete_OneOff(s, i, j) == SubSeq(s, 1, i + 1) \o SubSeq(s, j + 2, Len(s))

\* slices.Delete(s, i, j): s without s[i:j] (0-based, j exclusive).
SlicesDelete(s, i, j) == SubSeq(s, 1, i) \o SubSeq(s, j + 1, Len(s))

\* cap(s) of a value slice.
SliceCap(H, s) == IF s.arr = 0 THEN 0 ELSE Len(H.arrs[s.arr])

\* The elements s[0], ..., s[len(s)-1] of a value slice.
SliceElems(H, s) == [i \in 1..s.len |-> H.arrs[s.arr][i]]

\* []V{value}: a new array of one element.
SliceLit(H, value) ==
    [H |-> [H EXCEPT !.arrs = Append(@, <<value>>)],
     s |-> [arr |-> Len(H.arrs) + 1, len |-> 1]]

\* append(s, value).  With spare capacity the element is written into the
\* array s shares with every other slice of it; otherwise the elements move
\* to a new array whose capacity newcap > len(s) the runtime chooses.
GoAppend(H, s, value, newcap) ==
    IF s.len < SliceCap(H, s)
    THEN [H |-> [H EXCEPT !.arrs[s.arr][s.len + 1] = value],
          s |-> [arr |-> s.arr, len |-> s.len + 1]]
    ELSE [H |-> [H EXCEPT !.arrs = Append(@,
                    [i \in 1..newcap |->
                        IF i <= s.len THEN H.arrs[s.arr][i]
                        ELSE IF i = s.len + 1 THEN value ELSE 0])],
          s |-> [arr |-> Len(H.arrs) + 1, len |-> s.len + 1]]

\* ----------------------------------------------------------- constructors
\* All constructors allocate a fresh map and a fresh slice cell.
NewOrderedMapWithCapacity(H, capacity) ==
    [H |-> [H EXCEPT !.kvs = Append(@, <<>>), !.lls = Append(@, <<>>)],
     m |-> [kv |-> Len(H.kvs) + 1, ll |-> Len(H.lls) + 1]]

MakeOrderedMap(H) ==
    [H |-> [H EXCEPT !.kvs = Append(@, <<>>), !.lls = Append(@, <<>>)],
     m |-> [kv |-> Len(H.kvs) + 1, ll |-> Len(H.lls) + 1]]

NewOrderedMap(H) ==
    [H |-> [H EXCEPT !.kvs = Append(@, <<>>), !.lls = Append(@, <<>>)],
     m |-> [kv |-> Len(H.kvs) + 1, ll |-> Len(H.lls) + 1]]

\* The copy of a struct whose ll field is a []K instead of a *[]K: the copy
\* has a slice header of its own.
StructCopy_SliceByValue(H, m) ==
    [H |-> [H EXCEPT !.lls = Append(@, H.lls[m.ll])],
     m |-> [kv |-> m.kv, ll |-> Len(H.lls) + 1]]

\* m2 := m, and the by-value parameter of AppendMultiMap: the fields of the
\* struct are a map and a pointer, so the copy refers to the same two objects.
StructCopy(H, m) == [H |-> H, m |-> m]

\* ---------------------------------------------------------------- methods
Get(H, m, key) == MapIndex(H.kvs[m.kv], key)

Has(H, m, key) == MapIndex(H.kvs[m.kv], key).ok

MapLen(H, m) == Len(H.lls[m.ll])

\* A GetOrDefault that stores the default it returns for an absent key.
GetOrDefault_Stores(H, m, key, defaultValue) ==
    LET g == MapIndex(H.kvs[m.kv], key)
    IN  IF g.ok THEN [H |-> H, ret |-> g.value]
        ELSE [H |-> [H EXCEPT !.kvs[m.kv] = MapStore(@, key, defaultValue),
                              !.lls[m.ll] = Append(@, key)],
              ret |-> defaultValue]

GetOrDefault(H, m, key, defaultValue) ==
    LET g == MapIndex(H.kvs[m.kv], key)
    IN  IF g.ok THEN [H |-> H, ret |-> g.value]
        ELSE [H |-> H, ret |-> defaultValue]

\* A Set that stores a new key without appending it to the ordering sequence.
Set_NoAppend(H, m, key, value) ==
    LET alreadyExist == MapIndex(H.kvs[m.kv], key).ok
        H1 == [H EXCEPT !.kvs[m.kv] = MapStore(@, key, value)]
    IN  [H |-> H1, ret |-> ~alreadyExist]

\* A Set that puts a new key at the front of the ordering sequence.
Set_Prepend(H, m, key, value) ==
    LET alreadyExist == MapIndex(H.kvs[m.kv], key).ok
        H1 == [H EXCEPT !.kvs[m.kv] = MapStore(@, key, value)]
    IN  IF alreadyExist
        THEN [H |-> H1, ret |-> FALSE]
        ELSE [H |-> [H1 EXCEPT !.lls[m.ll] = <<key>> \o @], ret |-> TRUE]

\* A Set that reports whether it changed the map, not whether the key is new.
Set_ReturnsChanged(H, m, key, value) ==
    LET old == MapIndex(H.kvs[m.kv], key)
        H1  == [H EXCEPT !.kvs[m.kv] = MapStore(@, key, value)]
    IN  IF old.ok
        THEN [H |-> H1, ret |-> old.value # value]
        ELSE [H |-> [H1 EXCEPT !.lls[m.ll] = Append(@, key)], ret |-> TRUE]

\* A Set that moves a key it overwrites to the back of the ordering sequence.
Set_MoveToBack(H, m, key, value) ==
    LET alreadyExist == MapIndex(H.kvs[m.kv], key).ok
        H1 == [H EXCEPT !.kvs[m.kv] = MapStore(@, key, value)]
    IN  IF alreadyExist
        THEN [H |-> [H1 EXCEPT !.lls[m.ll] =
                        Append(SelectSeq(@, LAMBDA x : x # key), key)],
              ret |-> FALSE]
        ELSE [H |-> [H1 EXCEPT !.lls[m.ll] = Append(@, key)], ret |-> TRUE]

Set(H, m, key, value) ==
    LET alreadyExist == MapIndex(H.kvs[m.kv], key).ok
        H1 == [H EXCEPT !.kvs[m.kv] = MapStore(@, key, value)]
    IN  IF alreadyExist
        THEN [H |-> H1, ret |-> FALSE]
        ELSE [H |-> [H1 EXCEPT !.lls[m.ll] = Append(@, key)], ret |-> TRUE]

\* A ReplaceKey that deletes the old key and appends the new one.
ReplaceKey_Append(H, m, originalKey, newKey) ==
    LET orig == MapIndex(H.kvs[m.kv], originalKey)
        newKeyExists == MapIndex(H.kvs[m.kv], newKey).ok
    IN  IF orig.ok /\ ~newKeyExists
        THEN [H |-> [H EXCEPT
                       !.kvs[m.kv] = MapStore(MapDelete(@, originalKey),
                                              newKey, orig.value),
                       !.lls[m.ll] = Append(SelectSeq(@, LAMBDA x : x # originalKey),
                                            newKey)],
              ret |-> TRUE, panic |-> FALSE]
        ELSE [H |-> H, ret |-> FALSE, panic |-> FALSE]

\* A ReplaceKey that does not test whether the new key exists.
ReplaceKey_Overwrite(H, m, originalKey, newKey) ==
    LET orig == MapIndex(H.kvs[m.kv], originalKey)
        lli  == SlicesIndex(H.lls[m.ll], originalKey)
    IN  IF orig.ok
        THEN [H |-> [H EXCEPT
                       !.kvs[m.kv] = MapStore(MapDelete(@, originalKey),
                                              newKey, orig.value),
                       !.lls[m.ll][lli + 1] = newKey],
              ret |-> TRUE, panic |-> FALSE]
        ELSE [H |-> H, ret |-> FALSE, panic |-> FALSE]

ReplaceKey(H, m, originalKey, newKey) ==
    LET orig == MapIndex(H.kvs[m.kv], originalKey)
        newKeyExists == MapIndex(H.kvs[m.kv], newKey).ok
        H1  == [H EXCEPT !.kvs[m.kv] =
                   MapStore(MapDelete(@, originalKey), newKey, orig.value)]
        lli == SlicesIndex(H.lls[m.ll], originalKey)
    IN  IF orig.ok /\ ~newKeyExists
        THEN IF lli < 0 \/ lli >= Len(H.lls[m.ll])
             THEN [H |-> H1, ret |-> FALSE, panic |-> TRUE]
             ELSE [H |-> [H1 EXCEPT !.lls[m.ll][lli + 1] = newKey],
                   ret |-> TRUE, panic |-> FALSE]
        ELSE [H |-> H, ret |-> FALSE, panic |-> FALSE]

\* A Delete that fills the place of the key with the last key of the
\* ordering sequence.
Delete_SwapRemove(H, m, key) ==
    LET ok  == MapIndex(H.kvs[m.kv], key).ok
        s   == H.lls[m.ll]
        lli == SlicesIndex(s, key)
    IN  IF ok
        THEN [H |-> [H EXCEPT
                       !.lls[m.ll] = SubSeq([s EXCEPT ![lli + 1] = s[Len(s)]],
                                            1, Len(s) - 1),
                       !.kvs[m.kv] = MapDelete(@, key)],
              ret |-> TRUE, panic |-> FALSE]
        ELSE [H |-> H, ret |-> FALSE, panic |-> FALSE]

\* A Delete that removes the key from the ordering sequence only.
Delete_KeepsStore(H, m, key) ==
    LET ok  == MapIndex(H.kvs[m.kv], key).ok
        lli == SlicesIndex(H.lls[m.ll], key)
    IN  IF ok
        THEN IF ~SlicesDeleteInRange(H.lls[m.ll], lli, lli + 1)
             THEN [H |-> H, ret |-> FALSE, panic |-> TRUE]
             ELSE [H |-> [H EXCEPT !.lls[m.ll] = SlicesDelete(@, lli, lli + 1)],
                   ret |-> TRUE, panic |-> FALSE]
        ELSE [H |-> H, ret |-> FALSE, panic |-> FALSE]

Delete(H, m, key) ==
    LET ok  == MapIndex(H.kvs[m.kv], key).ok
        lli == SlicesIndex(H.lls[m.ll], key)
    IN  IF ok
        THEN IF ~SlicesDeleteInRange(H.lls[m.ll], lli, lli + 1)
             THEN [H |-> H, ret |-> FALSE, panic |-> TRUE]
             ELSE [H |-> [H EXCEPT
                            !.lls[m.ll] = SlicesDelete(@, lli, lli + 1),
                            !.kvs[m.kv] = MapDelete(@, key)],
                   ret |-> TRUE, panic |-> FALSE]
        ELSE [H |-> H, ret |-> FALSE, panic |-> FALSE]

\* The elements a traversal yields when its consumer never stops it and
\* nothing mutates the map meanwhile.
AllFromFront(H, m) ==
    [i \in 1..Len(H.lls[m.ll]) |->
        <<H.lls[m.ll][i], MapIndex(H.kvs[m.kv], H.lls[m.ll][i]).value>>]

All(H, m) == AllFromFront(H, m)

AllFromBack(H, m) ==
    LET n == Len(H.lls[m.ll])
    IN  [i \in 1..n |->
            <<H.lls[m.ll][n + 1 - i],
              MapIndex(H.kvs[m.kv], H.lls[m.ll][n + 1 - i]).value>>]

Keys(H, m) == [i \in 1..Len(H.lls[m.ll]) |-> H.lls[m.ll][i]]

Values(H, m) ==
    [i \in 1..Len(H.lls[m.ll]) |->
        MapIndex(H.kvs[m.kv], H.lls[m.ll][i]).value]

\* ------------------------------------------------------ the traversal loops
\* The five traversals are loops over *m.ll that call the consumer's yield
\* once per element.  A loop in progress is a record: its kind, the handle
\* h it was made from, the length n of the slice its range clause evaluated,
\* the number i of elements read, the number of calls of the consumer, the
\* call at which the consumer returned false (0: none), whether the loop
\* has returned, the elements ys yielded, for each of them whether its key
\* was in m.kv when it was yielded (had), the number of Deletes the consumer
\* made, and the order and the pairs of the map when the loop began.
Kinds == {"All", "AllFromFront", "AllFromBack", "Keys", "Values"}

\* for ... := range *m.ll (slices.Backward(*m.ll) likewise): the slice is
\* evaluated once, before the first iteration.
IterStart(H, m, kind, h) ==
    [kind |-> kind, h |-> h, n |-> Len(H.lls[m.ll]), i |-> 0, calls |-> 0,
     stop |-> 0, done |-> Len(H.lls[m.ll]) = 0, ys |-> <<>>, had |-> <<>>,
     dels |-> 0,
     order0 |-> H.lls[m.ll], store0 |-> H.kvs[m.kv]]

\* An AllFromBack that ranges over *m.ll as the other traversals do.
IterIndex_Forward(kind, n, i) == i

\* The index (0-based) the loop reads in its iteration i: slices.Backward
\* counts down from len(s) - 1.
IterIndex(kind, n, i) == IF kind = "AllFromBack" THEN n - 1 - i ELSE i

\* A slices.Delete that leaves the vacated tail as it was, so that the loop
\* reads the last key again there.
RangeElem_StaleTail(H, m, idx) ==
    IF idx < Len(H.lls[m.ll]) THEN H.lls[m.ll][idx + 1]
    ELSE IF Len(H.lls[m.ll]) = 0 THEN ZeroK
    ELSE H.lls[m.ll][Len(H.lls[m.ll])]

\* Element idx of the array behind *m.ll, read through the slice the loop
\* began with.  The only writer while a loop runs is the consumer's Delete:
\* slices.Delete moves the later elements down within the same array and
\* zeroes the vacated tail, which the loop's longer slice still covers.
RangeElem(H, m, idx) ==
    IF idx < Len(H.lls[m.ll]) THEN H.lls[m.ll][idx + 1] ELSE ZeroK

\* What the loop passes to yield for the key it read.
IterYield(H, m, kind, key) ==
    CASE kind = "Keys"   -> key
      [] kind = "Values" -> MapIndex(H.kvs[m.kv], key).value
      [] OTHER           -> <<key, MapIndex(H.kvs[m.kv], key).value>>

\* The body of the consumer, which decides d: go on, stop, or Delete the
\* key it was given and go on.  cont is what yield returns.
Consumer(H, m, key, d) ==
    IF d = "delete"
    THEN LET r == Delete(H, m, key)
         IN  [H |-> r.H, cont |-> TRUE, panic |-> r.panic]
    ELSE [H |-> H, cont |-> d # "stop", panic |-> FALSE]

\* A loop that goes on to the next element when yield returns false.
AfterYield_IgnoresStop(t, cont) == [t EXCEPT !.done = t.i >= t.n]

\* if !yield(...) { return }, and the loop's test.
AfterYield(t, cont) ==
    IF ~cont THEN [t EXCEPT !.done = TRUE]
    ELSE [t EXCEPT !.done = t.i >= t.n]

\* One iteration: read the key, yield it, act on what yield returns.
IterStep(H, m, t, d) ==
    LET key  == RangeElem(H, m, IterIndex(t.kind, t.n, t.i))
        item == IterYield(H, m, t.kind, key)
        c    == Consumer(H, m, key, d)
        t1   == [t EXCEPT !.i = @ + 1, !.calls = @ + 1,
                          !.ys = Append(@, item),
                          !.had = Append(@, MapIndex(H.kvs[m.kv], key).ok),
                          !.stop = IF c.cont THEN @ ELSE t.calls + 1,
                          !.dels = IF d = "delete" THEN @ + 1 ELSE @]
    IN  [H |-> c.H, t |-> AfterYield(t1, c.cont), panic |-> c.panic]

\* The loop of Copy and of NewOrderedMapWithElements: m2.Set(key, value) for
\* the pairs from position i on.
RECURSIVE SetEach(_, _, _, _)
SetEach(H, m2, pairs, i) ==
    IF i > Len(pairs) THEN H
    ELSE SetEach(Set(H, m2, pairs[i][1], pairs[i][2]).H, m2, pairs, i + 1)

NewOrderedMapWithElements(H, els) ==
    LET om == NewOrderedMapWithCapacity(H, Len(els))
    IN  [H |-> SetEach(om.H, om.m, els, 1), m |-> om.m]

\* A Copy that returns the struct itself.
Copy_Shallow(H, m) == [H |-> H, m |-> m]

\* A Copy that ranges over the keys from the back.
Copy_FromBack(H, m) ==
    LET m2 == NewOrderedMapWithCapacity(H, MapLen(H, m))
    IN  [H |-> SetEach(m2.H, m2.m, AllFromBack(H, m), 1), m |-> m2.m]

Copy(H, m) ==
    LET m2 == NewOrderedMapWithCapacity(H, MapLen(H, m))
    IN  [H |-> SetEach(m2.H, m2.m, AllFromFront(H, m), 1), m |-> m2.m]

\* An AppendMultiMap that Sets the one-element sequence whether or not the
\* key has a sequence already.
AppendMultiMap_Replaces(H, arg, key, value, newcap) ==
    LET m == StructCopy(H, arg).m
        l == SliceLit(H, value)
    IN  [H |-> Set(l.H, m, key, l.s).H, m |-> m]

\* The parameter m is a by-value copy of the caller's struct.
AppendMultiMap(H, arg, key, value, newcap) ==
    LET m == StructCopy(H, arg).m
        g == Get(H, m, key)
        a == GoAppend(H, g.value, value, newcap)
        l == SliceLit(H, value)
    IN  IF g.ok THEN [H |-> Set(a.H, m, key, a.s).H, m |-> m]
                ELSE [H |-> Set(l.H, m, key, l.s).H, m |-> m]

\* ------------------------------------------------------------- two threads
\* One thread runs m.Copy() while another calls Set and Delete on m, with no
\* synchronisation.  T is the record of the two threads:
\*   cap     the capacity of the array behind *m.ll
\*   cpc     where Copy is: "idle", in its "loop", at its "ret", "done"
\*   m2      the map Copy builds
\*   att, n, i, old, oob
\*           the slice Copy's range clause evaluated: whether its array is
\*           still the one behind *m.ll, its length, the elements read so
\*           far, the elements of its array if that is no longer the one
\*           behind *m.ll, and whether its last index lies outside the array
\*   wpc     the statement the writer is inside: "set_store" (line 57),
\*           "set_append" (line 62), "del_slice" (line 159), "del_store"
\*           (line 160), or "idle" between calls
\*   key, value, isnew
\*           the writer's arguments and what its line 56 found
\*   re, newcap
\*           whether the append of line 62 moves the elements to a new
\*           array, and the capacity of that array
\*   writes  the calls the writer has completed
\* A statement of the writer takes effect when the writer leaves it.  A read
\* by Copy that falls inside it is a data race: it gives what the statement
\* found or what the build can produce instead.  What the statement leaves is
\* read by the reads that come after it.

\* The first n elements of the array behind *m.ll: the elements of the
\* slice, then the zeroes slices.Delete and the allocator leave.
ArrayUpTo(H, m, n) == [j \in 1..n |-> RangeElem(H, m, j - 1)]

\* The slices the range clause of Copy (line 170) can evaluate *m.ll to.
\* Inside an append that moves the elements the three words of the slice
\* are being overwritten: Copy reads the old slice, or the new pointer with
\* the old length, or the old pointer with the new length, whose last index
\* lies outside the old array.
CopyHeaders(H, m, T) ==
    LET pre == H.lls[m.ll]
    IN  IF T.wpc = "set_append" /\ T.re
        THEN {[att |-> FALSE, n |-> Len(pre), old |-> pre, oob |-> FALSE],
              [att |-> TRUE, n |-> Len(pre), old |-> <<>>, oob |-> FALSE],
              [att |-> FALSE, n |-> Len(pre) + 1, old |-> pre, oob |-> TRUE]}
        ELSE {[att |-> TRUE, n |-> Len(pre), old |-> <<>>, oob |-> FALSE]}

\* The keys the loop of Copy can read at its index i.  Inside slices.Delete
\* the elements are being moved down: the read gives the element before or
\* after the move.  A read outside the array gives any bit pattern, or a
\* fault when K holds pointers.
CopyKeys(H, m, T) ==
    IF ~T.att
    THEN IF T.oob /\ T.i = T.n - 1
         THEN {[crash |-> TRUE, key |-> ZeroK]} \cup
              {[crash |-> FALSE, key |-> k] : k \in ConcKeyT \cup {ZeroK}}
         ELSE {[crash |-> FALSE, key |-> T.old[T.i + 1]]}
    ELSE {[crash |-> FALSE, key |-> RangeElem(H, m, T.i)]} \cup
         IF T.wpc = "del_slice"
         THEN LET lli == SlicesIndex(H.lls[m.ll], T.key)
                  H1  == [H EXCEPT !.lls[m.ll] = SlicesDelete(@, lli, lli + 1)]
              IN  {[crash |-> FALSE, key |-> RangeElem(H1, m, T.i)]}
         ELSE {}

\* What m.kv[key] of line 171 can give.  A map read that falls inside a map
\* write is detected by the runtime, which ends the program with the fatal
\* error "concurrent map read and map write".
CopyValues(H, m, T, key) ==
    {[crash |-> FALSE, value |-> MapIndex(H.kvs[m.kv], key).value]} \cup
    IF T.wpc \in {"set_store", "del_store"}
    THEN {[crash |-> TRUE, value |-> ZeroV]} ELSE {}

\* Lines 169-170: the new map, and the range clause evaluated to hd.
CopyBegin(H, m, T, hd) ==
    LET r == NewOrderedMapWithCapacity(H, MapLen(H, m))
    IN  [H |-> r.H,
         T |-> [T EXCEPT !.cpc = IF hd.n = 0 THEN "ret" ELSE "loop",
                         !.m2 = r.m, !.att = hd.att, !.n = hd.n, !.i = 0,
                         !.old = hd.old, !.oob = hd.oob]]

\* Line 171, for the key and the value the two reads gave.
CopyIter(H, m, T, key, value) ==
    [H |-> Set(H, T.m2, key, value).H,
     T |-> [T EXCEPT !.i = @ + 1,
                     !.cpc = IF T.i + 1 >= T.n THEN "ret" ELSE "loop"]]

\* The writer's call returns.
WrReturn(T) ==
    [T EXCEPT !.wpc = "idle", !.writes = @ + 1, !.key = 0, !.value = 0,
              !.isnew = FALSE, !.re = FALSE, !.newcap = 0]

\* Set, line 56, and into the map write of line 57.
WrSet(H, m, T, key, value) ==
    [T EXCEPT !.wpc = "set_store", !.key = key, !.value = value,
              !.isnew = ~MapIndex(H.kvs[m.kv], key).ok]

\* Delete, line 156, and into slices.Delete of lines 158-159.
WrDelete(H, m, T, key) ==
    IF MapIndex(H.kvs[m.kv], key).ok
    THEN [T EXCEPT !.wpc = "del_slice", !.key = key]
    ELSE WrReturn(T)

\* The writer leaves the statement it is inside and enters the next one.
\* An append at full capacity allocates an array of capacity c and copies
\* the elements there before the slice is overwritten: from then on the old
\* array is written no more, and a loop ranging over it keeps what it holds.
WrStep(H, m, T, c) ==
    CASE T.wpc = "set_store" ->
            LET H1 == [H EXCEPT !.kvs[m.kv] = MapStore(@, T.key, T.value)]
                re == Len(H.lls[m.ll]) >= T.cap
                leaves == re /\ T.cpc = "loop" /\ T.att
            IN  IF ~T.isnew THEN [H |-> H1, T |-> WrReturn(T)]
                ELSE [H |-> H1,
                      T |-> [T EXCEPT !.wpc = "set_append", !.re = re,
                                      !.newcap = IF re THEN c ELSE T.cap,
                                      !.att = IF leaves THEN FALSE ELSE @,
                                      !.old = IF leaves THEN ArrayUpTo(H, m, T.n)
                                              ELSE @]]
      [] T.wpc = "set_append" ->
            [H |-> [H EXCEPT !.lls[m.ll] = Append(@, T.key)],
             T |-> WrReturn([T EXCEPT !.cap = T.newcap])]
      [] T.wpc = "del_slice" ->
            LET lli == SlicesIndex(H.lls[m.ll], T.key)
            IN  [H |-> [H EXCEPT !.lls[m.ll] = SlicesDelete(@, lli, lli + 1)],
                 T |-> [T EXCEPT !.wpc = "del_store"]]
      [] T.wpc = "del_store" ->
            [H |-> [H EXCEPT !.kvs[m.kv] = MapDelete(@, T.key)],
             T |-> WrReturn(T)]

\* ------------------------------------------------------ garbage collection
\* The arrays the stored slices refer to, in the order in which a scan of
\* the maps from (r, k) on meets them first; seen are those met before.
RECURSIVE ScanArrs(_, _, _, _)
ScanArrs(H, r, k, seen) ==
    IF r > Len(H.kvs) THEN seen
    ELSE IF k > NumKeys + NumCopyKeys + NumMultiKeys
         THEN ScanArrs(H, r + 1, 1, seen)
    ELSE IF /\ k \in DOMAIN H.kvs[r]
            /\ H.kvs[r][k].arr # 0
            /\ \A i \in 1..Len(seen) : seen[i] # H.kvs[r][k].arr
         THEN ScanArrs(H, r, k + 1, Append(seen, H.kvs[r][k].arr))
    ELSE ScanArrs(H, r, k + 1, seen)

\* The heap without the arrays no stored slice refers to; the others are
\* numbered in the order of their first use, which no program can observe.
Collect(H) ==
    IF vtype # "slice" THEN H
    ELSE
    LET live == ScanArrs(H, 1, 1, <<>>)
        new(a) == IF a = 0 THEN 0 ELSE CHOOSE n \in 1..Len(live) : live[n] = a
    IN  [kvs |-> [r \in DOMAIN H.kvs |->
                    [k \in DOMAIN H.kvs[r] |->
                        [arr |-> new(H.kvs[r][k].arr), len |-> H.kvs[r][k].len]]],
         lls |-> H.lls,
         arrs |-> [n \in 1..Len(live) |-> H.arrs[live[n]]]]

\* ---------------------------------------------------------------- actions
Commit(H) ==
    LET G == Collect(H)
    IN  kvs' = G.kvs /\ lls' = G.lls /\ arrs' = G.arrs

Call(op, h, key, ret, rm) ==
    [op |-> op, h |-> h, key |-> key, ret |-> ret, rm |-> rm]

Live(h) == hnd[h] # NilHandle

\* No second thread has been started.
NoThreads ==
    [on |-> FALSE, cap |-> 0, writes |-> 0,
     cpc |-> "idle", m2 |-> NilHandle, att |-> TRUE, n |-> 0, i |-> 0,
     old |-> <<>>, oob |-> FALSE,
     wpc |-> "idle", key |-> 0, value |-> 0, isnew |-> FALSE,
     re |-> FALSE, newcap |-> 0]

\* No traversal has been started since the last call.
NoTrav == [kind |-> "none", done |-> TRUE]

\* The history of Set calls: begun by an empty map, extended by a Set of a
\* key not Set before, ended by every other call.
SetsBegin == [pure |-> TRUE, calls |-> <<>>]
SetsEnd   == [pure |-> FALSE, calls |-> <<>>]
SetsAfter(key, value) ==
    IF sets.pure /\ \A i \in 1..Len(sets.calls) : sets.calls[i][1] # key
    THEN [pure |-> TRUE, calls |-> Append(sets.calls, <<key, value>>)]
    ELSE SetsEnd

\* The history of AppendMultiMap calls: begun by an empty map, extended by
\* an AppendMultiMap up to MaxApps calls, ended by every other call.
AppsBegin == [pure |-> TRUE, calls |-> <<>>]
AppsEnd   == [pure |-> FALSE, calls |-> <<>>]
AppsAfter(key, value) ==
    IF apps.pure /\ Len(apps.calls) < MaxApps
    THEN [pure |-> TRUE, calls |-> Append(apps.calls, <<key, value>>)]
    ELSE AppsEnd

\* The argument lists of NewOrderedMapWithElements over keys KS, values VS.
ElsArgs(KS, VS) ==
    UNION {[1..n -> KS \X VS] : n \in 0..MaxEls}

DoMakeOrderedMap(h) ==
    /\ ~panicked /\ ~Live(h)
    /\ LET r == MakeOrderedMap(Heap)
       IN  /\ hnd' = [hnd EXCEPT ![h] = r.m] /\ Commit(r.H)
           /\ last' = Call("MakeOrderedMap", h, 0, FALSE, r.m)
    /\ sets' = SetsBegin
    /\ apps' = AppsBegin
    /\ trav' = NoTrav
    /\ thr' = NoThreads
    /\ UNCHANGED <<vtype, panicked>>

DoNewOrderedMap(h) ==
    /\ ~panicked /\ ~Live(h)
    /\ LET r == NewOrderedMap(Heap)
       IN  /\ hnd' = [hnd EXCEPT ![h] = r.m] /\ Commit(r.H)
           /\ last' = Call("NewOrderedMap", h, 0, FALSE, r.m)
    /\ sets' = SetsBegin
    /\ apps' = AppsBegin
    /\ trav' = NoTrav
    /\ thr' = NoThreads
    /\ UNCHANGED <<vtype, panicked>>

DoNewOrderedMapWithCapacity(h, capacity) ==
    /\ ~panicked /\ ~Live(h)
    /\ LET r == NewOrderedMapWithCapacity(Heap, capacity)
       IN  /\ hnd' = [hnd EXCEPT ![h] = r.m] /\ Commit(r.H)
           /\ last' = Call("NewOrderedMapWithCapacity", h, 0, FALSE, r.m)
    /\ sets' = SetsBegin
    /\ apps' = AppsBegin
    /\ trav' = NoTrav
    /\ thr' = NoThreads
    /\ UNCHANGED <<vtype, panicked>>

DoNewOrderedMapWithElements(h, els) ==
    /\ ~panicked /\ ~Live(h)
    /\ LET r == NewOrderedMapWithElements(Heap, els)
       IN  /\ hnd' = [hnd EXCEPT ![h] = r.m] /\ Commit(r.H)
           /\ last' = Call("NewOrderedMapWithElements", h, 0, FALSE, r.m)
    /\ sets' = SetsEnd
    /\ apps' = AppsEnd
    /\ trav' = NoTrav
    /\ thr' = NoThreads
    /\ UNCHANGED <<vtype, panicked>>

\* h2 := h, the by-value copy of the struct: both fields are references.
DoAssign(h2, h) ==
    /\ ~panicked /\ ~Live(h2) /\ Live(h)
    /\ LET r == StructCopy(Heap, hnd[h])
       IN  hnd' = [hnd EXCEPT ![h2] = r.m] /\ Commit(r.H)
    /\ last' = Call("Assign", h2, 0, FALSE, NilHandle)
    /\ apps' = apps
    /\ trav' = NoTrav
    /\ thr' = NoThreads
    /\ UNCHANGED <<vtype, panicked, sets>>

\* h2 := h.Copy()
DoCopy(h2, h) ==
    /\ ~panicked /\ ~Live(h2) /\ Live(h)
    /\ LET r == Copy(Heap, hnd[h])
       IN  /\ hnd' = [hnd EXCEPT ![h2] = r.m] /\ Commit(r.H)
           /\ last' = Call("Copy", h2, 0, FALSE, r.m)
    /\ sets' = SetsEnd
    /\ apps' = AppsEnd
    /\ trav' = NoTrav
    /\ thr' = NoThreads
    /\ UNCHANGED <<vtype, panicked>>

DoSet(h, key, value) ==
    /\ ~panicked /\ Live(h)
    /\ LET r == Set(Heap, hnd[h], key, value)
       IN  Commit(r.H) /\ last' = Call("Set", h, key, r.ret, NilHandle)
    /\ sets' = SetsAfter(key, value)
    /\ apps' = AppsEnd
    /\ trav' = NoTrav
    /\ thr' = NoThreads
    /\ UNCHANGED <<hnd, vtype, panicked>>

DoReplaceKey(h, originalKey, newKey) ==
    /\ ~panicked /\ Live(h)
    /\ LET r == ReplaceKey(Heap, hnd[h], originalKey, newKey)
       IN  /\ Commit(r.H)
           /\ panicked' = r.panic
           /\ last' = Call("ReplaceKey", h, originalKey, r.ret, NilHandle)
    /\ sets' = SetsEnd
    /\ apps' = AppsEnd
    /\ trav' = NoTrav
    /\ thr' = NoThreads
    /\ UNCHANGED <<hnd, vtype>>

DoDelete(h, key) ==
    /\ ~panicked /\ Live(h)
    /\ LET r == Delete(Heap, hnd[h], key)
       IN  /\ Commit(r.H)
           /\ panicked' = r.panic
           /\ last' = Call("Delete", h, key, r.ret, NilHandle)
    /\ sets' = SetsEnd
    /\ apps' = AppsEnd
    /\ trav' = NoTrav
    /\ thr' = NoThreads
    /\ UNCHANGED <<hnd, vtype>>

DoGetOrDefault(h, key, defaultValue) ==
    /\ ~panicked /\ Live(h)
    /\ LET r == GetOrDefault(Heap, hnd[h], key, defaultValue)
       IN  /\ Commit(r.H)
           /\ last' = Call("GetOrDefault", h, key, r.ret, NilHandle)
    /\ sets' = SetsEnd
    /\ apps' = AppsEnd
    /\ trav' = NoTrav
    /\ thr' = NoThreads
    /\ UNCHANGED <<hnd, vtype, panicked>>

\* No loop is running: none was started, or the last one has returned.
Idle == trav.done

\* for ... := range h.<kind>() { ... }: the loop begins.
DoRange(kind, h) ==
    /\ ~panicked /\ Live(h) /\ Idle
    /\ trav' = IterStart(Heap, hnd[h], kind, h)
    /\ last' = Call("range", h, 0, FALSE, NilHandle)
    /\ sets' = SetsEnd
    /\ apps' = AppsEnd
    /\ thr' = NoThreads
    /\ UNCHANGED <<hnd, kvs, lls, arrs, vtype, panicked>>

\* The next iteration of the running loop, whose consumer decides d.
DoYield(d) ==
    /\ ~panicked /\ ~Idle
    /\ LET r == IterStep(Heap, hnd[trav.h], trav, d)
       IN  /\ Commit(r.H)
           /\ panicked' = r.panic
           /\ trav' = r.t
    /\ UNCHANGED <<hnd, vtype, last, sets, apps, thr>>

LenOfM == MapLen(Heap, hnd["m"])

\* Two threads are started on the map m, whose array has capacity cap.
DoGo(cap) ==
    /\ ~panicked /\ Live("m") /\ ~thr.on
    /\ cap >= LenOfM
    /\ thr' = [NoThreads EXCEPT !.on = TRUE, !.cap = cap]
    /\ last' = Call("go", "m", 0, FALSE, NilHandle)
    /\ sets' = SetsEnd
    /\ apps' = AppsEnd
    /\ trav' = NoTrav
    /\ UNCHANGED <<hnd, kvs, lls, arrs, vtype, panicked>>

\* m2 := m.Copy() begins.
DoCopyBegin ==
    /\ ~panicked /\ thr.on /\ thr.cpc = "idle"
    /\ \E hd \in CopyHeaders(Heap, hnd["m"], thr) :
          LET r == CopyBegin(Heap, hnd["m"], thr, hd)
          IN  Commit(r.H) /\ thr' = r.T
    /\ UNCHANGED <<hnd, vtype, panicked, last, sets, apps, trav>>

\* One iteration of the loop of Copy, or the end of the program in it.
DoCopyIter ==
    /\ ~panicked /\ thr.on /\ thr.cpc = "loop"
    /\ \E kr \in CopyKeys(Heap, hnd["m"], thr) :
       \E vr \in CopyValues(Heap, hnd["m"], thr, kr.key) :
          IF kr.crash \/ vr.crash
          THEN panicked' = TRUE /\ UNCHANGED <<kvs, lls, arrs, thr>>
          ELSE LET r == CopyIter(Heap, hnd["m"], thr, kr.key, vr.value)
               IN  Commit(r.H) /\ thr' = r.T /\ panicked' = panicked
    /\ UNCHANGED <<hnd, vtype, last, sets, apps, trav>>

\* Copy returns m2.
DoCopyReturn ==
    /\ ~panicked /\ thr.on /\ thr.cpc = "ret"
    /\ hnd' = [hnd EXCEPT !["m2"] = thr.m2]
    /\ thr' = [thr EXCEPT !.cpc = "done"]
    /\ UNCHANGED <<kvs, lls, arrs, vtype, panicked, last, sets, apps, trav>>

\* The writer calls m.Set(key, value).
DoWrSet(key, value) ==
    /\ ~panicked /\ thr.on /\ thr.wpc = "idle" /\ thr.writes < MaxWrites
    /\ thr' = WrSet(Heap, hnd["m"], thr, key, value)
    /\ UNCHANGED <<hnd, kvs, lls, arrs, vtype, panicked, last, sets, apps, trav>>

\* The writer calls m.Delete(key).
DoWrDelete(key) ==
    /\ ~panicked /\ thr.on /\ thr.wpc = "idle" /\ thr.writes < MaxWrites
    /\ thr' = WrDelete(Heap, hnd["m"], thr, key)
    /\ UNCHANGED <<hnd, kvs, lls, arrs, vtype, panicked, last, sets, apps, trav>>

\* The writer goes on to its next statement; c is the capacity the runtime
\* gives the array of an append at full capacity (0 where none is made).
DoWrStep(c) ==
    /\ ~panicked /\ thr.on /\ thr.wpc # "idle"
    /\ IF thr.wpc = "set_store" /\ thr.isnew /\ LenOfM >= thr.cap
       THEN c > LenOfM ELSE c = 0
    /\ LET r == WrStep(Heap, hnd["m"], thr, c)
       IN  Commit(r.H) /\ thr' = r.T
    /\ UNCHANGED <<hnd, vtype, panicked, last, sets, apps, trav>>

\* AppendMultiMap(m, key, value); the runtime gives a grown slice the
\* capacity newcap.
DoAppendMultiMap(h, key, value, newcap) ==
    /\ ~panicked /\ Live(h)
    /\ newcap > Get(Heap, hnd[h], key).value.len
    /\ LET r == AppendMultiMap(Heap, hnd[h], key, value, newcap)
       IN  /\ Commit(r.H)
           /\ last' = Call("AppendMultiMap", h, key, FALSE, r.m)
    /\ sets' = SetsEnd
    /\ apps' = AppsAfter(key, value)
    /\ trav' = NoTrav
    /\ thr' = NoThreads
    /\ UNCHANGED <<hnd, vtype, panicked>>

\* --------------------------------------------------------- specifications
InitV(t) ==
    /\ hnd = [h \in Handles |-> NilHandle]
    /\ kvs = <<>> /\ lls = <<>> /\ arrs = <<>>
    /\ vtype = t
    /\ panicked = FALSE
    /\ last = Call("none", "m", 0, FALSE, NilHandle)
    /\ sets = SetsEnd
    /\ apps = AppsEnd
    /\ trav = NoTrav
    /\ thr = NoThreads

\* m := one of the constructors, with arguments over keys KS, values VS.
Construct(KS, VS) ==
    /\ ~Live("m")
    /\ \/ DoMakeOrderedMap("m")
       \/ DoNewOrderedMap("m")
       \/ \E c \in 0..MaxEls : DoNewOrderedMapWithCapacity("m", c)
       \/ \E els \in ElsArgs(KS, VS) : DoNewOrderedMapWithElements("m", els)

\* A mutating method called through any handle, with arguments over KS, VS.
Mutate(KS, VS) ==
    \/ \E h \in Handles, k \in KS, v \in VS : DoSet(h, k, v)
    \/ \E h \in Handles, k, k2 \in KS : DoReplaceKey(h, k, k2)
    \/ \E h \in Handles, k \in KS : DoDelete(h, k)

\* OrderedMap[K, V] with a scalar V: one map, and m2 := m a second handle to it.
Init == InitV("scalar")

Next ==
    \/ Construct(KeyT, ValT)
    \/ DoAssign("m2", "m")
    \/ Mutate(KeyT, ValT)

Spec == Init /\ [][Next]_vars

\* OrderedMap[K, V] with a scalar V: a map m and its copy m2 := m.Copy().
InitCopy == InitV("scalar")

NextCopy ==
    \/ Construct(CopyKeyT, CopyValT)
    \/ DoCopy("m2", "m")
    \/ Mutate(CopyKeyT, CopyValT)

SpecCopy == InitCopy /\ [][NextCopy]_vars

\* OrderedMap[K, []E]: the multimap m, and m2 := m a second handle to it.
\* A caller passes the nil slice to Set.
InitMulti == InitV("slice")

NextMulti ==
    \/ Construct(MultiKeyT, {NilSlice})
    \/ DoAssign("m2", "m")
    \/ Mutate(MultiKeyT, {NilSlice})
    \/ \E h \in Handles, k \in MultiKeyT, e \in ElemT, c \in 1..MaxCap :
          DoAppendMultiMap(h, k, e, c)

SpecMulti == InitMulti /\ [][NextMulti]_vars

\* OrderedMap[K, []E] built empty and filled by AppendMultiMap alone, through
\* m or its second handle m2 := m, for as long as the calls are recorded.
InitAppend == InitV("slice")

NextAppend ==
    \/ /\ ~Live("m")
       /\ \/ DoMakeOrderedMap("m")
          \/ DoNewOrderedMap("m")
          \/ \E c \in 0..MaxEls : DoNewOrderedMapWithCapacity("m", c)
    \/ DoAssign("m2", "m")
    \/ /\ Len(apps.calls) < MaxApps
       /\ \E h \in Handles, k \in MultiKeyT, e \in ElemT, c \in 1..MaxCap :
              DoAppendMultiMap(h, k, e, c)

SpecAppend == InitAppend /\ [][NextAppend]_vars

\* OrderedMap[K, []E]: a multimap m filled by AppendMultiMap, its copy
\* m2 := m.Copy(), and AppendMultiMap on either of the two.
MultiCopyKeyT == 1..NumMultiCopyKeys

InitMultiCopy == InitV("slice")

NextMultiCopy ==
    \/ Construct(MultiCopyKeyT, {NilSlice})
    \/ DoCopy("m2", "m")
    \/ \E h \in Handles, k \in MultiCopyKeyT, e \in ElemT, c \in 1..MaxCap :
          DoAppendMultiMap(h, k, e, c)

SpecMultiCopy == InitMultiCopy /\ [][NextMultiCopy]_vars

\* OrderedMap[K, V] with a scalar V, built by one thread and then used by
\* two: one calls m.Copy(), the other Set and Delete on m.  The array behind
\* *m.ll has the capacity the construction left it: its length or more.
InitConc == InitV("scalar")

NextConc ==
    \/ Construct(ConcKeyT, ConcValT)
    \/ \E cap \in 0..NumConcKeys : DoGo(cap)
    \/ DoCopyBegin
    \/ DoCopyIter
    \/ DoCopyReturn
    \/ \E k \in ConcKeyT, v \in ConcValT : DoWrSet(k, v)
    \/ \E k \in ConcKeyT : DoWrDelete(k)
    \/ \E c \in 0..NumConcKeys : DoWrStep(c)

SpecConc == InitConc /\ [][NextConc]_vars

\* OrderedMap[K, V] with a scalar V and its readers: GetOrDefault and the
\* traversals, whose consumers run between the steps of the loop.
InitRead == InitV("scalar")

\* What the consumer of a traversal can do: one that is given no key (of
\* Values) has none to Delete.
Decisions(kind) ==
    IF kind = "Values" THEN {"continue", "stop"}
    ELSE {"continue", "stop", "delete"}

NextRead ==
    \/ Idle /\ Construct(ReadKeyT, ReadValT)
    \/ Idle /\ Mutate(ReadKeyT, ReadValT)
    \/ Idle /\ \E k \in ReadKeyT, d \in ReadValT : DoGetOrDefault("m", k, d)
    \/ \E kind \in Kinds : DoRange(kind, "m")
    \/ \E d \in Decisions(trav.kind) : DoYield(d)

SpecRead == InitRead /\ [][NextRead]_vars

\* ------------------------------------------------------------ observations
\* What a caller holding handle h observes in the current state.
HasK(h, k)   == Has(Heap, hnd[h], k)
GetK(h, k)   == Get(Heap, hnd[h], k)
LenOf(h)     == MapLen(Heap, hnd[h])
Front(h)     == AllFromFront(Heap, hnd[h])
Back(h)      == AllFromBack(Heap, hnd[h])
KeysOf(h)    == Keys(Heap, hnd[h])
ValuesOf(h)  == Values(Heap, hnd[h])
Stored(h)    == kvs[hnd[h].kv]
Order(h)     == lls[hnd[h].ll]

AllKeys == KeyT \cup CopyKeyT \cup MultiKeyT
Reverse(s) == [i \in 1..Len(s) |-> s[Len(s) + 1 - i]]
Yields(seq, k) == \E i \in 1..Len(seq) : seq[i][1] = k
Other(h) == IF h = "m" THEN "m2" ELSE "m"

\* ------------------------------------------------------------------ claims
\* The claims about one call are properties of its steps: of every step that
\* is the call's action for some arguments.  last' names the call, receiver
\* and key of the step, so only those arguments are tried.
\* C1: in every reachable state the ordering sequence has no duplicate key,
\* its keys are exactly the keys for which Has is true, and Len() equals both
\* its length and the number of stored keys.
C1_Bijection ==
    \A h \in Handles : Live(h) =>
        /\ \A i, j \in 1..Len(Order(h)) : Order(h)[i] = Order(h)[j] => i = j
        /\ {Order(h)[i] : i \in 1..Len(Order(h))} = {k \in AllKeys : HasK(h, k)}
        /\ {KeysOf(h)[i] : i \in 1..Len(KeysOf(h))} = {k \in AllKeys : HasK(h, k)}
        /\ LenOf(h) = Len(Order(h))
        /\ LenOf(h) = Len(Front(h))
        /\ LenOf(h) = Cardinality(DOMAIN Stored(h))

\* A map of two keys, the older one Set after the newer one was renamed or
\* re-inserted, just extended by AppendMultiMap.
C1_Witness ==
    /\ last.op = "AppendMultiMap"
    /\ Live("m") /\ Order("m") = <<2, 1>>
    /\ SliceElems(Heap, Stored("m")[1]) = <<1, 2>>

\* C2: starting from an empty map, after Set is called with pairwise distinct
\* new keys k1, ..., kn, AllFromFront yields exactly (k1, v1), ..., (kn, vn)
\* and AllFromBack yields them in the reverse order.
C2_OrderPreserved ==
    sets.pure /\ Live("m") =>
        /\ Front("m") = sets.calls
        /\ Back("m") = Reverse(sets.calls)

C2_Witness ==
    /\ sets.pure /\ Len(sets.calls) = 3
    /\ sets.calls[1][1] = 3 /\ sets.calls[2][1] = 1 /\ sets.calls[3][1] = 2
    /\ sets.calls[1][2] # sets.calls[2][2]

\* C3: Set(k, v) returns true iff Has(k) was false before the call; in both
\* cases Get(k) returns (v, true) afterwards; when k was new it becomes the
\* last key of the front traversal and Len() grows by exactly 1.
C3_SetStep ==
    last'.op = "Set" => \A h \in {last'.h}, k \in {last'.key}, v \in ValT :
        DoSet(h, k, v) =>
            /\ last'.ret = ~HasK(h, k)
            /\ GetK(h, k)' = [value |-> v, ok |-> TRUE]
            /\ ~HasK(h, k) =>
                  /\ LenOf(h)' = LenOf(h) + 1
                  /\ Front(h)'[LenOf(h)'] = <<k, v>>
                  /\ KeysOf(h)'[LenOf(h)'] = k

C3_Set == [][C3_SetStep]_vars

C3_Witness ==
    /\ last.op = "Set" /\ last.ret
    /\ LenOf(last.h) = 3 /\ KeysOf(last.h)[3] = last.key

\* C4: Set(k, v') on a key that is already present leaves the ordering
\* sequence, Len() and the value of every other key unchanged; only the value
\* of k changes, to v'.
C4_ReSetStep ==
    last'.op = "Set" => \A h \in {last'.h}, k \in {last'.key}, v \in ValT :
        HasK(h, k) /\ DoSet(h, k, v) =>
            /\ Order(h)' = Order(h)
            /\ KeysOf(h)' = KeysOf(h)
            /\ LenOf(h)' = LenOf(h)
            /\ \A k2 \in KeyT \ {k} : GetK(h, k2)' = GetK(h, k2)
            /\ GetK(h, k)' = [value |-> v, ok |-> TRUE]

C4_ReSet == [][C4_ReSetStep]_vars

\* The first of three keys has been Set again and is still the first.
C4_Witness ==
    /\ last.op = "Set" /\ ~last.ret
    /\ LenOf(last.h) = 3 /\ KeysOf(last.h)[1] = last.key

\* C5: ReplaceKey(oldKey, newKey) with oldKey present and newKey absent
\* returns true; the front traversal is the previous one with oldKey replaced
\* by newKey at the same index, Get(newKey) returns the value oldKey had,
\* Has(oldKey) is false, Len() is unchanged and every other key keeps its
\* position and value.
C5_ReplaceKeyStep ==
    last'.op = "ReplaceKey" => \A h \in {last'.h}, k \in {last'.key}, k2 \in KeyT :
        HasK(h, k) /\ ~HasK(h, k2) /\ DoReplaceKey(h, k, k2) =>
            /\ last'.ret = TRUE
            /\ Front(h)' = [i \in 1..Len(Front(h)) |->
                                IF Front(h)[i][1] = k
                                THEN <<k2, Front(h)[i][2]>> ELSE Front(h)[i]]
            /\ GetK(h, k2)' = [value |-> GetK(h, k).value, ok |-> TRUE]
            /\ ~HasK(h, k)'
            /\ LenOf(h)' = LenOf(h)
            /\ \A k3 \in KeyT \ {k, k2} : GetK(h, k3)' = GetK(h, k3)

C5_ReplaceKey == [][C5_ReplaceKeyStep]_vars

\* Key 2, the first of two keys, has been renamed to 3; key 1 follows it.
C5_Witness ==
    /\ last.op = "ReplaceKey" /\ last.ret /\ last.key = 2
    /\ KeysOf(last.h) = <<3, 1>>
    /\ GetK(last.h, 3).value # GetK(last.h, 1).value

\* C6: ReplaceKey(oldKey, newKey) returns false and leaves the stored pairs
\* and the ordering sequence unchanged whenever oldKey is absent or newKey is
\* already present, newKey = oldKey with the key present included.
\* Stated by contraposition: a ReplaceKey step that returns true or changes
\* the pairs or the order is no call with oldKey absent or newKey present.
C6_ReplaceKeyRejectStep ==
    last'.op = "ReplaceKey" => \A h \in {last'.h}, k \in {last'.key} :
        ~ ( /\ last'.ret = FALSE
            /\ Stored(h)' = Stored(h)
            /\ Order(h)' = Order(h)
            /\ Front(h)' = Front(h) ) =>
            \A k2 \in KeyT :
                ~HasK(h, k) \/ HasK(h, k2) => ~DoReplaceKey(h, k, k2)

C6_ReplaceKeyReject == [][C6_ReplaceKeyRejectStep]_vars

\* A ReplaceKey of a present key was rejected: its new key was present too.
C6_Witness ==
    /\ last.op = "ReplaceKey" /\ ~last.ret
    /\ HasK(last.h, last.key) /\ LenOf(last.h) >= 2

\* C7: Delete(k) returns true iff k was present; after a Delete that returned
\* true Has(k) is false, Get(k) reports not found, no traversal yields k and
\* Len() has decreased by exactly 1; a Delete of an absent key returns false
\* and changes neither the stored pairs nor the ordering sequence.
C7_DeleteStep ==
    last'.op = "Delete" => \A h \in {last'.h}, k \in {last'.key} :
        DoDelete(h, k) =>
            /\ last'.ret = HasK(h, k)
            /\ HasK(h, k) =>
                  /\ ~HasK(h, k)'
                  /\ ~GetK(h, k)'.ok
                  /\ ~Yields(Front(h)', k)
                  /\ ~Yields(Back(h)', k)
                  /\ \A i \in 1..Len(KeysOf(h)') : KeysOf(h)'[i] # k
                  /\ LenOf(h)' = LenOf(h) - 1
            /\ ~HasK(h, k) =>
                  /\ Stored(h)' = Stored(h)
                  /\ Order(h)' = Order(h)

C7_Delete == [][C7_DeleteStep]_vars

\* One of three keys has been deleted; the other two are left in order.
C7_Witness ==
    /\ last.op = "Delete" /\ last.ret /\ last.key = 2
    /\ KeysOf(last.h) = <<3, 1>>

\* C8: after m2 := m.Copy(), a Set, Delete or ReplaceKey applied to one of the
\* two maps leaves the stored pairs, the ordering sequence and Len() of the
\* other unchanged.
C8_CopyIndependentStep ==
    \A h \in Handles :
        /\ Live("m") /\ Live("m2")
        /\ last'.op \in {"Set", "Delete", "ReplaceKey"} /\ last'.h = h
        => /\ Stored(Other(h))' = Stored(Other(h))
           /\ Order(Other(h))' = Order(Other(h))
           /\ Front(Other(h))' = Front(Other(h))
           /\ LenOf(Other(h))' = LenOf(Other(h))

C8_CopyIndependent == [][C8_CopyIndependentStep]_vars

\* The copy m2 has lost a key that m, which got a new value since, still has.
C8_Witness ==
    /\ Live("m") /\ Live("m2")
    /\ last.op = "Delete" /\ last.h = "m2" /\ last.ret
    /\ KeysOf("m") = <<2, 1>> /\ KeysOf("m2") = <<1>>
    /\ GetK("m", 1).value # GetK("m2", 1).value

\* C9: m.Copy() returns a map whose front traversal yields the same pairs in
\* the same order as m's, with the same Len(), and leaves m unchanged.
C9_CopyStep ==
    last'.op = "Copy" /\ DoCopy("m2", "m") =>
        /\ Front("m2")' = Front("m")
        /\ LenOf("m2")' = LenOf("m")
        /\ Stored("m")' = Stored("m")
        /\ Order("m")' = Order("m")
        /\ Front("m")' = Front("m")

C9_Copy == [][C9_CopyStep]_vars

C9_Witness ==
    /\ last.op = "Copy"
    /\ KeysOf("m2") = <<2, 1>>
    /\ ValuesOf("m2")[1] # ValuesOf("m2")[2]

\* C10: when two handles refer to the same map instance, Get, Has, Len and
\* every traversal return identical results on both after any sequence of
\* Set, Delete and ReplaceKey issued through either.
C10_SharedHandles ==
    Live("m") /\ Live("m2") =>
        /\ \A k \in KeyT : GetK("m", k) = GetK("m2", k) /\ HasK("m", k) = HasK("m2", k)
        /\ LenOf("m") = LenOf("m2")
        /\ Front("m") = Front("m2")
        /\ All(Heap, hnd["m"]) = All(Heap, hnd["m2"])
        /\ Back("m") = Back("m2")
        /\ KeysOf("m") = KeysOf("m2")
        /\ ValuesOf("m") = ValuesOf("m2")

\* A key Set through m2 is seen through m.
C10_Witness ==
    /\ Live("m") /\ Live("m2")
    /\ last.op = "Set" /\ last.h = "m2" /\ last.ret
    /\ HasK("m", last.key) /\ LenOf("m") = 3

\* C11: GetOrDefault(k, d) returns the stored value when k is present and d
\* when k is absent, and changes nothing: the stored pairs, Has(k), Len() and
\* the ordering sequence are as before the call.
C11_GetOrDefaultStep ==
    last'.op = "GetOrDefault" =>
        \A h \in {last'.h}, k \in {last'.key}, d \in ReadValT :
            DoGetOrDefault(h, k, d) =>
                /\ HasK(h, k) => last'.ret = GetK(h, k).value
                /\ ~HasK(h, k) => last'.ret = d
                /\ HasK(h, k)' = HasK(h, k)
                /\ LenOf(h)' = LenOf(h)
                /\ Order(h)' = Order(h)
                /\ Stored(h)' = Stored(h)
                /\ Front(h)' = Front(h)

C11_GetOrDefault == [][C11_GetOrDefaultStep]_vars

\* An absent key was asked for with a default other than the zero value, in
\* a map of two keys.
C11_Witness ==
    /\ last.op = "GetOrDefault" /\ last.ret = 1
    /\ ~HasK(last.h, last.key) /\ LenOf(last.h) = 2

\* The keys of the calls in the order of their first call.
RECURSIVE FirstKeys(_)
FirstKeys(calls) ==
    IF calls = <<>> THEN <<>>
    ELSE LET n == Len(calls)
             before == FirstKeys(SubSeq(calls, 1, n - 1))
         IN  IF \E i \in 1..(n - 1) : calls[i][1] = calls[n][1]
             THEN before ELSE Append(before, calls[n][1])

\* The values of the calls made with key k, in call order.
ValuesUnder(calls, k) ==
    LET sub == SelectSeq(calls, LAMBDA c : c[1] = k)
    IN  [i \in 1..Len(sub) |-> sub[i][2]]

\* C12: starting from an empty multimap, after any sequence of AppendMultiMap
\* calls Get(k) returns exactly the values appended under k, in call order
\* (and nothing for a key never appended to), the front traversal lists the
\* keys in the order of their first append, and each call returns a handle to
\* the map it was given.
C12_AppendOrder ==
    apps.pure /\ Live("m") =>
        /\ \A k \in MultiKeyT :
              IF ValuesUnder(apps.calls, k) = <<>>
              THEN ~GetK("m", k).ok
              ELSE /\ GetK("m", k).ok
                   /\ SliceElems(Heap, GetK("m", k).value) = ValuesUnder(apps.calls, k)
        /\ KeysOf("m") = FirstKeys(apps.calls)
        /\ [i \in 1..Len(Front("m")) |-> Front("m")[i][1]] = FirstKeys(apps.calls)
        /\ last.op = "AppendMultiMap" =>
              /\ last.rm = hnd[last.h]
              /\ last.rm.kv = hnd["m"].kv /\ last.rm.ll = hnd["m"].ll

\* Three appends, the first and the last under key 2, the last one through
\* the second handle.
C12_Witness ==
    /\ apps.pure /\ Len(apps.calls) = 3
    /\ apps.calls[1][1] = 2 /\ apps.calls[2][1] = 1 /\ apps.calls[3][1] = 2
    /\ apps.calls[1][2] # apps.calls[3][2]
    /\ last.op = "AppendMultiMap" /\ last.h = "m2"

\* C13: for each of the five traversals, when the consumer returns false on
\* its j-th call (1 <= j <= Len()), the loop has returned, the consumer was
\* called exactly j times, exactly j elements were read and yielded, and a
\* traversal whose consumer did not Delete has left the order and the pairs
\* of the map as they were.
C13_EarlyStop ==
    trav.kind # "none" /\ trav.stop # 0 =>
        /\ trav.done
        /\ trav.stop \in 1..trav.n
        /\ trav.calls = trav.stop
        /\ trav.i = trav.stop
        /\ Len(trav.ys) = trav.stop
        /\ trav.dels = 0 =>
              /\ Order(trav.h) = trav.order0
              /\ Stored(trav.h) = trav.store0

\* A traversal from the back of three keys was stopped at its second element.
C13_Witness ==
    /\ trav.kind = "AllFromBack" /\ trav.n = 3 /\ trav.stop = 2
    /\ trav.dels = 0 /\ Len(trav.ys) = 2

\* C14: when Copy() runs interleaved with Set or Delete calls made by another
\* thread on the same map, Copy never crashes: the program is never ended
\* while Copy runs.
C14_CopyNeverCrashes ==
    thr.on /\ thr.cpc = "loop" => ~panicked

\* What a traversal of the kind yields from h when run to its end.
Full(kind, h) ==
    CASE kind = "All"          -> All(Heap, hnd[h])
      [] kind = "AllFromFront" -> Front(h)
      [] kind = "AllFromBack"  -> Back(h)
      [] kind = "Keys"         -> KeysOf(h)
      [] kind = "Values"       -> ValuesOf(h)

\* C15: in every reachable state AllFromBack yields the reverse of what
\* AllFromFront yields, All yields what AllFromFront yields, Keys yields its
\* keys and Values its values, and each yielded value is Get(key) of its key;
\* and that is what the loops yield element by element while their consumer
\* does not mutate the map.
C15_Traversals ==
    Live("m") =>
        /\ Back("m") = Reverse(Front("m"))
        /\ All(Heap, hnd["m"]) = Front("m")
        /\ KeysOf("m") = [i \in 1..Len(Front("m")) |-> Front("m")[i][1]]
        /\ ValuesOf("m") = [i \in 1..Len(Front("m")) |-> Front("m")[i][2]]
        /\ \A i \in 1..Len(Front("m")) :
              GetK("m", Front("m")[i][1]) = [value |-> Front("m")[i][2], ok |-> TRUE]
        /\ trav.kind # "none" /\ trav.dels = 0 =>
              /\ trav.ys = SubSeq(Full(trav.kind, trav.h), 1, trav.calls)
              /\ trav.done /\ trav.stop = 0 => trav.ys = Full(trav.kind, trav.h)

\* A traversal from the back of three keys has run to its end and yielded
\* different values first and last.
C15_Witness ==
    /\ trav.kind = "AllFromBack" /\ trav.done /\ trav.stop = 0 /\ trav.dels = 0
    /\ trav.n = 3 /\ Len(trav.ys) = 3
    /\ trav.ys[1][2] # trav.ys[3][2]
    /\ trav.ys[1][1] = Front("m")[3][1]

\* C16: a successful Delete(k) leaves the relative order and the values of
\* all other keys unchanged: the front traversal afterwards is the front
\* traversal before with the single entry for k removed.
C16_DeleteFrameStep ==
    last'.op = "Delete" => \A h \in {last'.h}, k \in {last'.key} :
        HasK(h, k) /\ DoDelete(h, k) =>
            /\ Front(h)' = SelectSeq(Front(h), LAMBDA p : p[1] # k)
            /\ Len(Front(h)') = Len(Front(h)) - 1
            /\ \A k2 \in KeyT \ {k} : GetK(h, k2)' = GetK(h, k2)

C16_DeleteFrame == [][C16_DeleteFrameStep]_vars

\* The first of three keys has been deleted; the two left have different
\* values.
C16_Witness ==
    /\ last.op = "Delete" /\ last.ret /\ last.key = 1
    /\ Front(last.h) = <<<<3, 1>>, <<2, 0>>>>

\* C17: for a map built by a constructor and used by a single caller no
\* operation ends in a runtime panic: in every reachable state the scan of
\* the ordering sequence finds every key the store holds at a valid index,
\* so the index write of ReplaceKey and the slices.Delete of Delete are in
\* range.
C17_NoPanic ==
    /\ ~panicked
    /\ \A h \in Handles : Live(h) =>
          \A k \in KeyT : HasK(h, k) =>
              /\ SlicesIndex(Order(h), k) >= 0
              /\ SlicesIndex(Order(h), k) < Len(Order(h))
              /\ SlicesDeleteInRange(Order(h), SlicesIndex(Order(h), k),
                                     SlicesIndex(Order(h), k) + 1)
              /\ \A k2 \in KeyT : ~ReplaceKey(Heap, hnd[h], k, k2).panic
              /\ ~Delete(Heap, hnd[h], k).panic

\* The last of two keys, 2, has been renamed to 3 through the second handle.
C17_Witness ==
    /\ ~panicked /\ last.op = "ReplaceKey" /\ last.ret /\ last.h = "m2"
    /\ last.key = 2 /\ KeysOf("m") = <<1, 3>>

\* The elements of the sequence Get(k) returns through h; none for no key.
Elems(h, k) == SliceElems(Heap, GetK(h, k).value)

\* C18: after m2 := m.Copy() of a multimap, an AppendMultiMap call on either
\* of the two maps leaves every Get(k) result of the other unchanged.
C18_CopyIndependentMultiStep ==
    \A h \in Handles :
        /\ Live("m") /\ Live("m2")
        /\ last'.op = "AppendMultiMap" /\ last'.h = h
        => \A k \in MultiCopyKeyT :
              /\ GetK(Other(h), k)'.ok = GetK(Other(h), k).ok
              /\ Elems(Other(h), k)' = Elems(Other(h), k)

C18_CopyIndependentMulti == [][C18_CopyIndependentMultiStep]_vars

\* The key the running loop gave its consumer in call j.
Given(j) == IF trav.kind = "Keys" THEN trav.ys[j] ELSE trav.ys[j][1]

\* The loop is an AllFromFront or a Keys whose consumer has so far called
\* Delete for every key it was given.
Deleting ==
    /\ trav.kind \in {"AllFromFront", "Keys"}
    /\ trav.dels = trav.calls

\* C19 as stated: during an AllFromFront or Keys traversal whose consumer
\* Deletes the key it has just been given, every key given was in the map
\* when it was given, and a traversal run to its end has given every key
\* present at the start exactly once.
C19_DeleteDuringTraversal ==
    Deleting =>
        /\ \A j \in 1..Len(trav.had) : trav.had[j]
        /\ trav.done /\ trav.stop = 0 =>
              \A p \in 1..Len(trav.order0) :
                  Cardinality({j \in 1..Len(trav.ys) :
                                  Given(j) = trav.order0[p]}) = 1

\* C19 as the code has it: the consumer is called once per key present at
\* the start; call j is given the key at position 2j - 1 of the starting
\* order, and the zero value of K once 2j - 1 is past its end, so each
\* Delete makes the loop skip the key that followed the deleted one; a key
\* given while Has is false for it is the zero value of K.
C19_DeleteSkips ==
    Deleting =>
        /\ \A j \in 1..trav.calls :
              /\ Given(j) = IF 2 * j - 1 <= Len(trav.order0)
                            THEN trav.order0[2 * j - 1] ELSE ZeroK
              /\ ~trav.had[j] => Given(j) = ZeroK
        /\ trav.done /\ trav.stop = 0 => trav.calls = Len(trav.order0)

\* An AllFromFront of the keys 1, 2, 0 whose consumer Deleted each key it
\* was given has ended: it gave the first key, the third, and then the zero
\* key again, which was no longer in the map; the second key is still there.
C19_Witness ==
    /\ trav.kind = "AllFromFront" /\ trav.done /\ trav.stop = 0
    /\ trav.dels = 3 /\ trav.calls = 3
    /\ trav.order0 = <<1, 2, 0>>
    /\ trav.had = <<TRUE, TRUE, FALSE>>
    /\ Order(trav.h) = <<2>>
====
